---- MODULE Spec2Model ----
(***************************************************************************)
(* Model of vigra's RandomForest (include/vigra/random_forest_new/         *)
(* random_forest.hxx): merge, predict, predict_proba, leaf_ids and         *)
(* leaf_ids_impl, together with the collaborators they call (BinaryForest, *)
(* PropertyMap, LessEqualSplitTest, ArgMaxAcc, ProblemSpecNew,             *)
(* parallel_foreach).                                                      *)
(*                                                                         *)
(* Conventions.  Node ids and tree indices are 0-based as in the C++ code; *)
(* TLA+ sequences are 1-based, so node x is nodes[x+1], tree k is          *)
(* root_nodes_[k+1] and ids(i,k) is ids[i+1][k+1].  Feature values and     *)
(* thresholds are the doubles of test.cxx multiplied by 100 (0.6 -> 60).   *)
(* A probability is the pair <<votes, total>> standing for votes/total.    *)
(* The returned average is the record [sum, n] standing for sum / n; with  *)
(* n = 0 it stands for the NaN that 0.0 / 0 produces.                       *)
(***************************************************************************)
EXTENDS Integers, Sequences, FiniteSets, TLC

\* Bounds of the model.
MaxTrees == 2
MaxSamples == 2
MaxThreads == 2

Max(a, b) == IF a >= b THEN a ELSE b

(***************************************************************************)
(* BinaryForest: an arena of nodes, each with a parent and two child       *)
(* slots (-1 when absent), and the list of root ids, one per tree.         *)
(***************************************************************************)
EmptyGraph == [nodes |-> <<>>, root_nodes_ |-> <<>>]

addNode(g) ==
    [nodes |-> Append(g.nodes, [parent |-> -1, left_child |-> -1, right_child |-> -1]),
     root_nodes_ |-> Append(g.root_nodes_, Len(g.nodes))]

addArc(g, u, v) ==
    LET nu == g.nodes[u + 1]
        nu2 == IF nu.left_child = -1 THEN [nu EXCEPT !.left_child = v]
                                      ELSE [nu EXCEPT !.right_child = v]
    IN [nodes |-> [g.nodes EXCEPT ![u + 1] = nu2, ![v + 1].parent = u],
        root_nodes_ |-> SelectSeq(g.root_nodes_, LAMBDA r : r # v)]

numNodes(g) == Len(g.nodes)

numRoots(g) == Len(g.root_nodes_)

getRoot(g, k) == g.root_nodes_[k + 1]

outDegree(g, node) ==
    (IF g.nodes[node + 1].left_child # -1 THEN 1 ELSE 0)
    + (IF g.nodes[node + 1].right_child # -1 THEN 1 ELSE 0)

getChild(g, node, i) ==
    IF i = 0 THEN g.nodes[node + 1].left_child ELSE g.nodes[node + 1].right_child

ShiftLink(x, offset) == IF x = -1 THEN -1 ELSE x + offset

\* BinaryForest::merge: append the other arena, shifting every link and root
\* of the appended part by the node count before the append.
graph_merge(g, other) ==
    LET offset == Len(g.nodes)
        shifted == [j \in 1..Len(other.nodes) |->
                      [parent |-> ShiftLink(other.nodes[j].parent, offset),
                       left_child |-> ShiftLink(other.nodes[j].left_child, offset),
                       right_child |-> ShiftLink(other.nodes[j].right_child, offset)]]
        roots == [j \in 1..Len(other.root_nodes_) |-> other.root_nodes_[j] + offset]
    IN [nodes |-> g.nodes \o shifted, root_nodes_ |-> g.root_nodes_ \o roots]

(***************************************************************************)
(* PropertyMap (MapTag): a finite map keyed by node id.                    *)
(***************************************************************************)
EmptyMap == [x \in {} |-> 0]

insert(m, k, v) == [x \in (DOMAIN m) \cup {k} |-> IF x = k THEN v ELSE m[x]]

\* LessEqualSplitTest(dim, val): child 0 when the feature is <= val, else 1.
SplitTest(dim, val) == [dim_ |-> dim, val_ |-> val]

LessEqualSplitTest(test, row) == IF row[test.dim_ + 1] <= test.val_ THEN 0 ELSE 1

\* ProblemSpecNew().num_features(nf).distinct_classes(labels)
ProblemSpecNew(nf, distinct) ==
    [num_features_ |-> nf, num_classes_ |-> Len(distinct), distinct_classes_ |-> distinct]

\* RandomForest(graph, split_tests, node_responses, problem_spec)
RandomForest(graph, split_tests, node_responses, problem_spec) ==
    [graph_ |-> graph, split_tests_ |-> split_tests,
     node_responses_ |-> node_responses, problem_spec_ |-> problem_spec]

RECURSIVE AddNodes(_, _)
AddNodes(g, n) == IF n = 0 THEN g ELSE AddNodes(addNode(g), n - 1)

(***************************************************************************)
(* The forests handed to the constructor.                                  *)
(***************************************************************************)
TestLabels == <<0, 1, -7, 3>>

TestSpec == ProblemSpecNew(2, TestLabels)

\* test_base_class: the 7-node tree of test.cxx.
TestGraph ==
    LET g0 == AddNodes(EmptyGraph, 7)
        g1 == addArc(g0, 0, 1)
        g2 == addArc(g1, 0, 2)
        g3 == addArc(g2, 1, 3)
        g4 == addArc(g3, 1, 4)
        g5 == addArc(g4, 2, 5)
    IN addArc(g5, 2, 6)

TestSplits ==
    insert(insert(insert(EmptyMap, 0, SplitTest(0, 60)), 1, SplitTest(1, 25)),
           2, SplitTest(1, 75))

TestResponses ==
    insert(insert(insert(insert(insert(EmptyMap, 3, 0), 3, 0), 4, 1), 5, 2), 6, 3)

TestForest == RandomForest(TestGraph, TestSplits, TestResponses, TestSpec)

\* A tree whose root is a leaf.
StumpForest == RandomForest(AddNodes(EmptyGraph, 1), EmptyMap, insert(EmptyMap, 0, 1), TestSpec)

\* An unbalanced 5-node tree: a leaf on the left of the root, a split on the right.
LopsidedGraph ==
    LET g0 == AddNodes(EmptyGraph, 5)
        g1 == addArc(g0, 0, 1)
        g2 == addArc(g1, 0, 2)
        g3 == addArc(g2, 2, 3)
    IN addArc(g3, 2, 4)

LopsidedForest ==
    RandomForest(LopsidedGraph,
                 insert(insert(EmptyMap, 0, SplitTest(0, 30)), 2, SplitTest(1, 75)),
                 insert(insert(insert(EmptyMap, 1, 2), 3, 0), 4, 3),
                 TestSpec)

\* Single-node forests whose problem specification differs from TestSpec in
\* the feature count, in the class count, or only in the label list.
OtherSpecs ==
    {ProblemSpecNew(1, TestLabels), ProblemSpecNew(2, <<0, 1>>), ProblemSpecNew(2, <<0, 1, 7, 3>>)}

ForeignForests ==
    {RandomForest(AddNodes(EmptyGraph, 1), EmptyMap, insert(EmptyMap, 0, 1), s) : s \in OtherSpecs}

BaseForests == {TestForest, StumpForest, LopsidedForest}


(***************************************************************************)
(* RandomForest::merge                                                     *)
(***************************************************************************)
num_nodes(rf) == numNodes(rf.graph_)

num_trees(rf) == numRoots(rf.graph_)

num_classes(rf) == rf.problem_spec_.num_classes_

Least(S) == CHOOSE x \in S : \A y \in S : x <= y

\* for (auto const & p : other_map) m.insert(Node(p.first.id()+offset), p.second)
RECURSIVE insert_shifted(_, _, _, _)
insert_shifted(m, other_map, keys, offset) ==
    IF keys = {} THEN m
    ELSE LET k == Least(keys)
         IN insert_shifted(insert(m, k + offset, other_map[k]), other_map, keys \ {k}, offset)

merge_precondition_features_only(rf, other) ==
    rf.problem_spec_.num_features_ = other.problem_spec_.num_features_

\* vigra_precondition(problem_spec_ == other.problem_spec_, ...)
merge_precondition(rf, other) == rf.problem_spec_ = other.problem_spec_

merge_with(rf, other, offset) ==
    [graph_ |-> graph_merge(rf.graph_, other.graph_),
     split_tests_ |-> insert_shifted(rf.split_tests_, other.split_tests_,
                                     DOMAIN other.split_tests_, offset),
     node_responses_ |-> insert_shifted(rf.node_responses_, other.node_responses_,
                                        DOMAIN other.node_responses_, offset),
     problem_spec_ |-> rf.problem_spec_]

\* Slip: the offset is read after graph_.merge has already grown the graph.
merge_late_offset(rf, other) ==
    merge_with(rf, other, numNodes(graph_merge(rf.graph_, other.graph_)))

\* Slip: the entries of the other forest are inserted under their own ids.
merge_unshifted(rf, other) == merge_with(rf, other, 0)

\* The body of merge after its precondition: offset is num_nodes() before
\* graph_.merge.
merge(rf, other) == merge_with(rf, other, num_nodes(rf))

(***************************************************************************)
(* RandomForest::leaf_ids_impl                                             *)
(***************************************************************************)
\* Slip: a do-while loop, which tests the root before looking at its out-degree.
RECURSIVE descend_do_while(_, _, _, _, _)
descend_do_while(rf, sub_features, node, count, tests) ==
    LET has_test == node \in DOMAIN rf.split_tests_
        child_index == IF has_test THEN LessEqualSplitTest(rf.split_tests_[node], sub_features)
                       ELSE 0
        next == IF outDegree(rf.graph_, node) > 0
                THEN getChild(rf.graph_, node, child_index) ELSE node
    IN IF outDegree(rf.graph_, next) > 0 /\ next # node
       THEN descend_do_while(rf, sub_features, next, count + 1, Append(tests, node))
       ELSE [node |-> next, split_comparisons |-> count + 1, tests |-> Append(tests, node)]

\* Slip: only the descents to the right child are counted.
RECURSIVE descend_count_right(_, _, _, _, _)
descend_count_right(rf, sub_features, node, count, tests) ==
    IF outDegree(rf.graph_, node) > 0
    THEN LET child_index == LessEqualSplitTest(rf.split_tests_[node], sub_features)
         IN descend_count_right(rf, sub_features, getChild(rf.graph_, node, child_index),
                                count + child_index, Append(tests, node))
    ELSE [node |-> node, split_comparisons |-> count, tests |-> tests]

\* Slip: the child index is ignored and the left child always taken.
RECURSIVE descend_left(_, _, _, _, _)
descend_left(rf, sub_features, node, count, tests) ==
    IF outDegree(rf.graph_, node) > 0
    THEN descend_left(rf, sub_features, getChild(rf.graph_, node, 0),
                      count + 1, Append(tests, node))
    ELSE [node |-> node, split_comparisons |-> count, tests |-> tests]

\* while (graph_.outDegree(node) > 0) { child_index = split_tests_.at(node)(sub_features);
\*   node = graph_.getChild(node, child_index); split_comparisons += 1.0; }
\* tests records the nodes whose split test was looked up, in order.
RECURSIVE descend(_, _, _, _, _)
descend(rf, sub_features, node, count, tests) ==
    IF outDegree(rf.graph_, node) > 0
    THEN LET child_index == LessEqualSplitTest(rf.split_tests_[node], sub_features)
         IN descend(rf, sub_features, getChild(rf.graph_, node, child_index),
                    count + 1, Append(tests, node))
    ELSE [node |-> node, split_comparisons |-> count, tests |-> tests]

bind0(features, i) == features.data[i + 1]

\* Slip: the range check wants to < features.shape()[0].
leaf_ids_impl_precondition_strict_to(rf, features, ids_shape, from, to) ==
    /\ features.shape[1] = ids_shape[1]
    /\ features.shape[2] = rf.problem_spec_.num_features_
    /\ from >= 0 /\ from <= to /\ to < features.shape[1]
    /\ ids_shape[2] = num_trees(rf)

\* The four preconditions at the top of leaf_ids_impl.
leaf_ids_impl_precondition(rf, features, ids_shape, from, to) ==
    /\ features.shape[1] = ids_shape[1]
    /\ features.shape[2] = rf.problem_spec_.num_features_
    /\ from >= 0 /\ from <= to /\ to <= features.shape[1]
    /\ ids_shape[2] = num_trees(rf)

\* The loop over the trees of one instance i (std::set iterates ascending).
\* acc = [ids, split_comparisons, walks]; walks[<<i, k>>] is the record of the
\* descent made for cell (i, k).
RECURSIVE leaf_ids_row(_, _, _, _, _)
leaf_ids_row(rf, features, i, trees, acc) ==
    IF trees = {} THEN acc
    ELSE LET k == Least(trees)
             w == descend(rf, bind0(features, i), getRoot(rf.graph_, k), 0, <<>>)
         IN leaf_ids_row(rf, features, i, trees \ {k},
                [ids |-> [acc.ids EXCEPT ![i + 1][k + 1] = w.node],
                 split_comparisons |-> acc.split_comparisons + w.split_comparisons,
                 walks |-> insert(acc.walks, <<i, k>>, w)])

\* for (size_t i = from; i < to; ++i) ...; return split_comparisons
RECURSIVE leaf_ids_impl_loop(_, _, _, _, _, _)
leaf_ids_impl_loop(rf, features, i, to, tree_indices, acc) ==
    IF i >= to THEN acc
    ELSE leaf_ids_impl_loop(rf, features, i + 1, to, tree_indices,
                            leaf_ids_row(rf, features, i, tree_indices, acc))

leaf_ids_impl(rf, features, ids, from, to, tree_indices) ==
    leaf_ids_impl_loop(rf, features, from, to, tree_indices,
                       [ids |-> ids, split_comparisons |-> 0, walks |-> EmptyMap])


(***************************************************************************)
(* RandomForest::leaf_ids, up to the parallel loop                         *)
(***************************************************************************)
\* std::set<size_t> actual_tree_indices(tree_indices.begin(), tree_indices.end())
SetOf(tree_indices) == {tree_indices[j] : j \in 1..Len(tree_indices)}

\* By default the set is empty; in that case all trees are used.
actual_tree_indices_of(rf, tree_indices) ==
    IF SetOf(tree_indices) = {} THEN 0..(num_trees(rf) - 1) ELSE SetOf(tree_indices)

\* The elements of a std::set in iteration order.
RECURSIVE SortedSeq(_)
SortedSeq(S) == IF S = {} THEN <<>> ELSE <<Least(S)>> \o SortedSeq(S \ {Least(S)})

\* Slip: the row-count comparison is missing.
leaf_ids_precondition_no_rows(rf, features, ids_shape, tree_indices) ==
    IF features.shape[2] # rf.problem_spec_.num_features_
    THEN "RandomForest::leaf_ids(): Number of features in prediction differs from training."
    ELSE IF ids_shape[2] # num_trees(rf)
    THEN "RandomForest::leaf_ids(): Leaf array has wrong shape."
    ELSE IF \E i \in SetOf(tree_indices) : ~(i < num_trees(rf))
    THEN "RandomForest::leaf_ids(): Tree index out of range."
    ELSE "ok"

\* The vigra_precondition calls of leaf_ids in program order: the message of
\* the first one that fails, "ok" when all hold.
leaf_ids_precondition(rf, features, ids_shape, tree_indices) ==
    IF features.shape[1] # ids_shape[1]
    THEN "RandomForest::leaf_ids(): Shape mismatch between features and probabilities."
    ELSE IF features.shape[2] # rf.problem_spec_.num_features_
    THEN "RandomForest::leaf_ids(): Number of features in prediction differs from training."
    ELSE IF ids_shape[2] # num_trees(rf)
    THEN "RandomForest::leaf_ids(): Leaf array has wrong shape."
    ELSE IF \E i \in SetOf(tree_indices) : ~(i < num_trees(rf))
    THEN "RandomForest::leaf_ids(): Tree index out of range."
    ELSE "ok"

\* Slip: the second adjustment (n_threads < 1) is left out.
resolve_n_threads_unclamped(n, hardware) == IF n = -1 THEN hardware ELSE n

\* if (n_threads == -1) n_threads = hardware_concurrency(); if (n_threads < 1) n_threads = 1;
resolve_n_threads(n, hardware) ==
    LET n1 == IF n = -1 THEN hardware ELSE n
    IN IF n1 < 1 THEN 1 ELSE n1

\* MultiArray<2, T>(Shape2(rows, cols)), every cell holding v.
Filled(rows, cols, v) == [i \in 1..rows |-> [k \in 1..cols |-> v]]

\* std::fill(ids.begin(), ids.end(), -1)
fill(ids, v) == [i \in 1..Len(ids) |-> [k \in 1..Len(ids[i]) |-> v]]

RECURSIVE accumulate(_, _)
accumulate(v, init) == IF v = <<>> THEN init ELSE accumulate(Tail(v), init + Head(v))

\* Slip: only the first worker's counter is returned.
leaf_ids_return_first_slot(split_comparisons_vec, features) ==
    [sum |-> split_comparisons_vec[1], n |-> features.shape[1]]

\* sum_split_comparisons / features.shape()[0]
leaf_ids_return(split_comparisons_vec, features) ==
    [sum |-> accumulate(split_comparisons_vec, 0), n |-> features.shape[1]]

(***************************************************************************)
(* RandomForest::predict_proba                                             *)
(***************************************************************************)
\* Slip: the column count is compared with the tree count, as the note at the
\* declaration has it.
predict_proba_precondition_num_trees(rf, features, probs_shape, tree_indices) ==
    IF features.shape[1] # probs_shape[1]
    THEN "RandomForest::predict_proba(): Shape mismatch between features and probabilities."
    ELSE IF features.shape[2] # rf.problem_spec_.num_features_
    THEN "RandomForest::predict_proba(): Number of features in prediction differs from training."
    ELSE IF probs_shape[2] # num_trees(rf)
    THEN "RandomForest::predict_proba(): Number of labels in probabilities differs from training."
    ELSE IF \E i \in SetOf(tree_indices) : ~(i < num_trees(rf))
    THEN "RandomForest::predict_proba(): Tree index out of range."
    ELSE "ok"

\* The preconditions of predict_proba in program order, then those of the
\* leaf_ids call it makes on its own ids(n, num_roots) with the resolved set.
predict_proba_precondition(rf, features, probs_shape, tree_indices) ==
    IF features.shape[1] # probs_shape[1]
    THEN "RandomForest::predict_proba(): Shape mismatch between features and probabilities."
    ELSE IF features.shape[2] # rf.problem_spec_.num_features_
    THEN "RandomForest::predict_proba(): Number of features in prediction differs from training."
    ELSE IF probs_shape[2] # rf.problem_spec_.num_classes_
    THEN "RandomForest::predict_proba(): Number of labels in probabilities differs from training."
    ELSE IF \E i \in SetOf(tree_indices) : ~(i < num_trees(rf))
    THEN "RandomForest::predict_proba(): Tree index out of range."
    ELSE leaf_ids_precondition(rf, features, <<features.shape[1], num_trees(rf)>>,
                               SortedSeq(actual_tree_indices_of(rf, tree_indices)))

\* ArgMaxAcc: the share of the votes each class index received.
CountOf(tree_results, c) == Cardinality({j \in 1..Len(tree_results) : tree_results[j] = c})

ArgMaxAcc(tree_results, sub_probs) ==
    [c \in 1..Len(sub_probs) |-> <<CountOf(tree_results, c - 1), Len(tree_results)>>]

\* A gathering that walks the tree set from its greatest index down.
RECURSIVE gather_descending(_, _, _, _, _)
gather_descending(rf, ids, i, trees, acc) ==
    IF trees = {} \/ acc.missing THEN acc
    ELSE LET k == CHOOSE t \in trees : \A u \in trees : u <= t
             node == ids[i + 1][k + 1]
             seen == [acc EXCEPT !.looked = Append(@, <<i, k>>)]
         IN IF node \in DOMAIN rf.node_responses_
            THEN gather_descending(rf, ids, i, trees \ {k},
                        [seen EXCEPT !.tree_results = Append(@, rf.node_responses_[node])])
            ELSE [seen EXCEPT !.missing = TRUE]

\* for (auto k : actual_tree_indices) tree_results.push_back(node_responses_.at(Node(ids(i, k))))
\* at() fails on a missing key: missing becomes TRUE and the gathering stops.
\* looked lists the cells (i, k) whose id was handed to at(), in order.
RECURSIVE gather(_, _, _, _, _)
gather(rf, ids, i, trees, acc) ==
    IF trees = {} \/ acc.missing THEN acc
    ELSE LET k == Least(trees)
             node == ids[i + 1][k + 1]
             seen == [acc EXCEPT !.looked = Append(@, <<i, k>>)]
         IN IF node \in DOMAIN rf.node_responses_
            THEN gather(rf, ids, i, trees \ {k},
                        [seen EXCEPT !.tree_results = Append(@, rf.node_responses_[node])])
            ELSE [seen EXCEPT !.missing = TRUE]

\* The loop over the instances that fills probs; st = [probs, tree_results
\* (per instance, what was handed to the accumulator), rows (instances whose
\* row was written), looked (the cells looked up in node_responses_), missing].
RECURSIVE predict_proba_loop(_, _, _, _, _)
predict_proba_loop(rf, ids, i, trees, st) ==
    IF i >= Len(st.probs) \/ st.missing THEN st
    ELSE LET g == gather(rf, ids, i, trees,
                         [tree_results |-> <<>>, looked |-> <<>>, missing |-> FALSE])
         IN IF g.missing THEN [st EXCEPT !.missing = TRUE, !.looked = @ \o g.looked]
            ELSE predict_proba_loop(rf, ids, i + 1, trees,
                    [probs |-> [st.probs EXCEPT ![i + 1] = ArgMaxAcc(g.tree_results, @)],
                     tree_results |-> Append(st.tree_results, g.tree_results),
                     rows |-> st.rows \cup {i},
                     looked |-> st.looked \o g.looked,
                     missing |-> FALSE])

(***************************************************************************)
(* RandomForest::predict                                                   *)
(***************************************************************************)
predict_precondition(rf, features, labels_shape, tree_indices) ==
    IF features.shape[1] # labels_shape[1]
    THEN "RandomForest::predict(): Shape mismatch between features and labels."
    ELSE IF features.shape[2] # rf.problem_spec_.num_features_
    THEN "RandomForest::predict(): Number of features in prediction differs from training."
    ELSE predict_proba_precondition(rf, features,
                                    <<features.shape[1], rf.problem_spec_.num_classes_>>,
                                    tree_indices)

\* a < b for the probabilities a and b
Less(a, b) == a[1] * b[2] < b[1] * a[2]

\* Slip: the comparison is <=, which keeps the last maximum.
RECURSIVE max_element_last(_, _, _)
max_element_last(sub_probs, largest, next) ==
    IF next > Len(sub_probs) THEN largest
    ELSE max_element_last(sub_probs,
             IF ~Less(sub_probs[next], sub_probs[largest]) THEN next ELSE largest, next + 1)

\* std::max_element: a linear scan that moves on a strictly larger element.
\* Positions are 1-based here.
RECURSIVE max_element(_, _, _)
max_element(sub_probs, largest, next) ==
    IF next > Len(sub_probs) THEN largest
    ELSE max_element(sub_probs,
             IF Less(sub_probs[largest], sub_probs[next]) THEN next ELSE largest, next + 1)

\* Slip: the class index itself is written instead of the label it stands for.
predict_label_index(rf, sub_probs) == max_element(sub_probs, 1, 2) - 1

\* label = distance(begin, max_element(...)); labels(i) = distinct_classes_[label]
predict_label(rf, sub_probs) ==
    LET label == max_element(sub_probs, 1, 2) - 1
    IN rf.problem_spec_.distinct_classes_[label + 1]


(***************************************************************************)
(* The program state: one forest, and one call on it at a time.            *)
(***************************************************************************)
VARIABLES
    graph_, split_tests_, node_responses_, problem_spec_,  \* the members of this forest
    pc,                  \* "idle", "loop" (inside parallel_foreach), "done", "failed",
                         \* "lookup_failed", "merged", "merge_failed"
    op,                  \* the public operation called last
    features,            \* argument: [shape, data]
    out_shape,           \* shape of the array the caller passed for the output
    given_n_threads,     \* argument n_threads as passed
    tree_indices,        \* argument tree_indices as passed (a sequence)
    hardware,            \* what hardware_concurrency() returned, -1 when not asked
    n_threads,           \* the local n_threads of leaf_ids after its two adjustments
    actual_tree_indices, \* the std::set of leaf_ids
    split_comparisons,   \* the per-worker vector of leaf_ids
    pending,             \* the items parallel_foreach has not yet handed out
    ids, probs, labels,  \* the arrays (the caller's, or the local ones)
    written,             \* the cells of the caller's output array written so far
    walks,               \* per cell (i, k): the descent made for it
    tree_results,        \* per instance: the list handed to the accumulator
    looked,              \* the cells (i, k) whose id was looked up in node_responses_
    accesses,            \* what the lambda runs did: [items run, rows (item, row of ids
                         \* written), slots (thread_id, counter added to)]
    result,              \* the returned average
    error,               \* the message of the failed precondition
    before, other        \* merge: this forest before the call, and the argument

forest_vars == <<graph_, split_tests_, node_responses_, problem_spec_>>

call_vars == <<op, features, out_shape, given_n_threads, tree_indices, hardware, n_threads,
               actual_tree_indices, split_comparisons, pending, ids, probs, labels,
               written, walks, tree_results, looked, accesses, result, error>>

vars == <<forest_vars, pc, call_vars, before, other>>

This == RandomForest(graph_, split_tests_, node_responses_, problem_spec_)

\* RandomForest(): the empty forest; stands for "no forest" in before/other.
DefaultForest == RandomForest(EmptyGraph, EmptyMap, EmptyMap, ProblemSpecNew(0, <<>>))

NoFeatures == [shape |-> <<0, 0>>, data |-> <<>>]

NoAccess == [items |-> {}, rows |-> {}, slots |-> {}]

NoResult == [sum |-> -1, n |-> -1]

(***************************************************************************)
(* The inputs.                                                             *)
(***************************************************************************)
Rows == {<<20, 20>>, <<70, 80>>}

Matrix(d, cols) == [shape |-> <<Len(d), cols>>, data |-> d]

Matrices == UNION {{Matrix(d, 2) : d \in [1..n -> Rows]} : n \in 0..MaxSamples}

\* test_x of test_base_class (row i is (test_x(i,0), test_x(i,1))).
test_x ==
    Matrix(<< <<20, 20>>, <<40, 20>>, <<20, 70>>, <<40, 70>>,
              <<70, 20>>, <<80, 20>>, <<70, 80>>, <<80, 80>> >>, 2)

test_y == <<0, 0, 1, 1, -7, -7, 3, 3>>

\* -1 (ask the platform), 0 (below 1), one worker, and the most workers.
ThreadInputs == {-1, 0, 1, MaxThreads}

\* hardware_concurrency(): 0 when the platform cannot tell, or two cores.
HardwareValues == {0, 2}

TreeIndexInputs == {<<>>, <<1, 0>>, <<0, 0>>} \cup {<<a>> : a \in 0..MaxTrees}

Ops == {"leaf_ids", "predict_proba", "predict"}

\* The shape the note at the declaration of each operation asks for, with
\* the column count the code checks.
ExpectedShape(o, rf, f) ==
    CASE o = "leaf_ids" -> <<f.shape[1], num_trees(rf)>>
      [] o = "predict_proba" -> <<f.shape[1], num_classes(rf)>>
      [] o = "predict" -> <<f.shape[1]>>

\* Calls whose output array has the right shape.
ShapedArgs(o, rf) ==
    {[features |-> f, out_shape |-> ExpectedShape(o, rf, f), n_threads |-> n, tree_indices |-> t] :
        f \in Matrices, n \in ThreadInputs, t \in TreeIndexInputs}

\* Calls that probe the shape checks: array shapes of all kinds, a feature
\* matrix with one column, an out-of-range tree index.
ProbeMatrices == {Matrix(<<>>, 2), Matrix(<< <<20, 20>> >>, 2), Matrix(<< <<20>> >>, 1)}

ProbeShapes(o, f) ==
    IF o = "predict" THEN {<<r>> : r \in {f.shape[1], f.shape[1] + 1}}
    ELSE {<<r, c>> : r \in {f.shape[1], f.shape[1] + 1}, c \in 1..Max(MaxTrees, Len(TestLabels))}

ProbeArgs(o) ==
    UNION {{[features |-> f, out_shape |-> s, n_threads |-> 1, tree_indices |-> t] :
               s \in ProbeShapes(o, f), t \in {<<>>, <<MaxTrees>>}} : f \in ProbeMatrices}

\* The call of test_base_class: rf.predict(test_x, pred_y, 1).
TestArgs(o, rf) ==
    {[features |-> test_x, out_shape |-> ExpectedShape(o, rf, test_x), n_threads |-> 1,
      tree_indices |-> <<>>]}

CallArgs(o, rf) == ShapedArgs(o, rf) \cup ProbeArgs(o) \cup TestArgs(o, rf)


(***************************************************************************)
(* The actions.                                                            *)
(***************************************************************************)
Precondition(o, rf, a) ==
    CASE o = "leaf_ids" -> leaf_ids_precondition(rf, a.features, a.out_shape, a.tree_indices)
      [] o = "predict_proba" ->
            predict_proba_precondition(rf, a.features, a.out_shape, a.tree_indices)
      [] o = "predict" -> predict_precondition(rf, a.features, a.out_shape, a.tree_indices)

\* The array the caller passes in, zero-initialised as MultiArray's constructor leaves it.
CallerArray(o, which, shape) ==
    IF o # which THEN <<>>
    ELSE IF o = "predict" THEN [i \in 1..shape[1] |-> 0]
    ELSE IF o = "predict_proba" THEN Filled(shape[1], shape[2], <<0, 1>>)
    ELSE Filled(shape[1], shape[2], 0)

Cells(rows, cols) == {<<i, k>> : i \in 0..(rows - 1), k \in 0..(cols - 1)}

NoCall ==
    /\ features' = NoFeatures /\ out_shape' = <<>>
    /\ given_n_threads' = 0 /\ tree_indices' = <<>> /\ hardware' = -1 /\ n_threads' = 0
    /\ actual_tree_indices' = {} /\ split_comparisons' = <<>> /\ pending' = {}
    /\ ids' = <<>> /\ probs' = <<>> /\ labels' = <<>> /\ written' = {}
    /\ walks' = EmptyMap /\ tree_results' = <<>> /\ result' = NoResult
    /\ looked' = <<>> /\ accesses' = NoAccess

Init ==
    /\ \E rf \in BaseForests :
          /\ graph_ = rf.graph_ /\ split_tests_ = rf.split_tests_
          /\ node_responses_ = rf.node_responses_ /\ problem_spec_ = rf.problem_spec_
    /\ pc = "idle" /\ op = "none" /\ features = NoFeatures /\ out_shape = <<>>
    /\ given_n_threads = 0 /\ tree_indices = <<>> /\ hardware = -1 /\ n_threads = 0
    /\ actual_tree_indices = {} /\ split_comparisons = <<>> /\ pending = {}
    /\ ids = <<>> /\ probs = <<>> /\ labels = <<>> /\ written = {}
    /\ walks = EmptyMap /\ tree_results = <<>> /\ result = NoResult
    /\ looked = <<>> /\ accesses = NoAccess
    /\ error = "" /\ before = DefaultForest /\ other = DefaultForest

\* predict, predict_proba or leaf_ids is called: every precondition on the way
\* down to leaf_ids, and leaf_ids up to the start of parallel_foreach.
Call(o, a, hw) ==
    /\ pc = "idle"
    /\ op' = o /\ features' = a.features /\ out_shape' = a.out_shape
    /\ given_n_threads' = a.n_threads /\ tree_indices' = a.tree_indices
    /\ before' = DefaultForest /\ other' = DefaultForest
    /\ UNCHANGED forest_vars
    /\ walks' = EmptyMap /\ tree_results' = <<>> /\ result' = NoResult
    /\ looked' = <<>> /\ accesses' = NoAccess
    /\ \E err \in {Precondition(o, This, a)} :
       LET n == a.features.shape[1]
           inner == IF o = "leaf_ids" THEN a.tree_indices
                    ELSE SortedSeq(actual_tree_indices_of(This, a.tree_indices))
       IN IF err # "ok"
          THEN /\ pc' = "failed" /\ error' = err
               /\ ids' = CallerArray(o, "leaf_ids", a.out_shape)
               /\ probs' = CallerArray(o, "predict_proba", a.out_shape)
               /\ labels' = CallerArray(o, "predict", a.out_shape)
               /\ written' = {}
               /\ hardware' = -1 /\ n_threads' = 0 /\ actual_tree_indices' = {}
               /\ split_comparisons' = <<>> /\ pending' = {}
          ELSE /\ pc' = "loop" /\ error' = ""
               /\ actual_tree_indices' = actual_tree_indices_of(This, inner)
               /\ hardware' = IF a.n_threads = -1 THEN hw ELSE -1
               /\ n_threads' = resolve_n_threads(a.n_threads, hw)
               /\ split_comparisons' = [t \in 1..resolve_n_threads(a.n_threads, hw) |-> 0]
               /\ pending' = 0..(n - 1)
               /\ ids' = fill(IF o = "leaf_ids" THEN CallerArray(o, "leaf_ids", a.out_shape)
                              ELSE Filled(n, num_trees(This), 0), -1)
               /\ probs' = IF o = "leaf_ids" THEN <<>>
                           ELSE Filled(n, num_classes(This), <<0, 1>>)
               /\ labels' = CallerArray(o, "predict", a.out_shape)
               /\ written' = IF o = "leaf_ids" THEN Cells(a.out_shape[1], a.out_shape[2]) ELSE {}

\* Slip: every worker adds to the first counter.
add_to_slot_first(split_comparisons_vec, thread_id, count) ==
    [split_comparisons_vec EXCEPT ![1] = @ + count]

\* Slip: the worker overwrites its counter instead of adding to it.
add_to_slot_overwrite(split_comparisons_vec, thread_id, count) ==
    [split_comparisons_vec EXCEPT ![thread_id + 1] = count]

\* split_comparisons[thread_id] += ...
add_to_slot(split_comparisons_vec, thread_id, count) ==
    [split_comparisons_vec EXCEPT ![thread_id + 1] = @ + count]

\* parallel_foreach hands item i to worker thread_id, which runs the lambda:
\* split_comparisons[thread_id] += leaf_ids_impl(features, ids, i, i+1, actual_tree_indices)
Worker(thread_id, i) ==
    /\ pc = "loop"
    /\ i \in pending
    /\ thread_id \in 0..(n_threads - 1)
    /\ pending' = pending \ {i}
    /\ UNCHANGED <<forest_vars, op, features, out_shape, given_n_threads, tree_indices,
                   hardware, n_threads, actual_tree_indices, probs, labels, written,
                   tree_results, looked, result, before, other>>
    /\ IF leaf_ids_impl_precondition(This, features,
                                     <<Len(ids), num_trees(This)>>, i, i + 1)
       THEN \E r \in {leaf_ids_impl(This, features, ids, i, i + 1, actual_tree_indices)} :
               /\ ids' = r.ids
               /\ split_comparisons' = add_to_slot(split_comparisons, thread_id,
                                                   r.split_comparisons)
               /\ walks' = r.walks @@ walks
               /\ accesses' =
                     [items |-> accesses.items \cup {i},
                      rows |-> accesses.rows \cup
                         {<<i, row>> : row \in {x \in 0..(Len(ids) - 1) :
                                                  r.ids[x + 1] # ids[x + 1]}},
                      slots |-> accesses.slots \cup
                         {<<thread_id, slot>> : slot \in {x \in 0..(n_threads - 1) :
                              add_to_slot(split_comparisons, thread_id, 1)[x + 1]
                                 # split_comparisons[x + 1]}}]
               /\ pc' = "loop" /\ error' = ""
       ELSE /\ pc' = "failed"
            /\ error' = "RandomForest::leaf_ids_impl()"
            /\ UNCHANGED <<ids, split_comparisons, walks, accesses>>

\* parallel_foreach has returned: leaf_ids sums the counters and returns;
\* predict_proba gathers the responses and fills probs; predict picks labels.
Finish ==
    /\ pc = "loop"
    /\ pending = {}
    /\ UNCHANGED <<forest_vars, op, features, out_shape, given_n_threads, tree_indices,
                   hardware, n_threads, actual_tree_indices, split_comparisons, pending,
                   ids, walks, accesses, before, other>>
    /\ LET avg == leaf_ids_return(split_comparisons, features)
       IN IF op = "leaf_ids"
          THEN /\ pc' = "done" /\ result' = avg /\ error' = ""
               /\ UNCHANGED <<probs, labels, written, tree_results, looked>>
          ELSE \E st \in {predict_proba_loop(This, ids, 0,
                              actual_tree_indices_of(This, tree_indices),
                              [probs |-> probs, tree_results |-> <<>>, rows |-> {},
                               looked |-> <<>>, missing |-> FALSE])} :
               /\ probs' = st.probs
               /\ tree_results' = st.tree_results
               /\ looked' = st.looked
               /\ IF st.missing
                  THEN /\ pc' = "lookup_failed" /\ result' = NoResult
                       /\ error' = "PropertyMap::at(): Key not found."
                       /\ labels' = labels
                       /\ written' = IF op = "predict_proba"
                                     THEN {c \in Cells(Len(probs), num_classes(This)) :
                                              c[1] \in st.rows}
                                     ELSE {}
                  ELSE /\ pc' = "done" /\ result' = avg /\ error' = ""
                       /\ labels' = IF op = "predict"
                                    THEN [i \in 1..Len(labels) |->
                                             predict_label(This, st.probs[i])]
                                    ELSE labels
                       /\ written' = IF op = "predict_proba"
                                     THEN Cells(Len(probs), num_classes(This))
                                     ELSE {<<i>> : i \in 0..(Len(labels) - 1)}

\* merge(other): the precondition, then the body.  The forest stays within
\* MaxTrees trees.
Merge(o) ==
    /\ pc = "idle"
    /\ merge_precondition(This, o) => num_trees(This) + num_trees(o) <= MaxTrees
    /\ before' = This /\ other' = o
    /\ NoCall
    /\ op' = "merge"
    /\ IF merge_precondition(This, o)
       THEN LET m == merge(This, o)
            IN /\ graph_' = m.graph_ /\ split_tests_' = m.split_tests_
               /\ node_responses_' = m.node_responses_ /\ problem_spec_' = m.problem_spec_
               /\ pc' = "merged" /\ error' = ""
       ELSE /\ UNCHANGED forest_vars
            /\ pc' = "merge_failed"
            /\ error' = "RandomForest::merge(): You cannot merge with different problem specs."

\* The call has returned or thrown; the caller drops its arrays.
Return ==
    /\ pc \in {"done", "failed", "lookup_failed", "merged", "merge_failed"}
    /\ pc' = "idle" /\ op' = "none" /\ error' = ""
    /\ NoCall
    /\ before' = DefaultForest /\ other' = DefaultForest
    /\ UNCHANGED forest_vars

Next ==
    \/ pc = "idle" /\ \E o \in Ops : \E a \in CallArgs(o, This) :
                         \E hw \in HardwareValues : Call(o, a, hw)
    \/ \E t \in 0..(n_threads - 1) : \E i \in pending : Worker(t, i)
    \/ Finish
    \/ pc = "idle" /\ \E o \in BaseForests \cup ForeignForests : Merge(o)
    \/ Return

Spec == Init /\ [][Next]_vars

\* The steps parallel_foreach can take: some worker runs some pending item.
LoopSteps == \E t \in 0..(n_threads - 1) : \E i \in pending : Worker(t, i)


(***************************************************************************)
(* Vocabulary of the properties, stated without the operators of the       *)
(* traversal: the leaf a row reaches is characterised bottom-up, through   *)
(* the parent links.                                                       *)
(***************************************************************************)
NodeIds(rf) == 0..(num_nodes(rf) - 1)

Parent(rf, node) == rf.graph_.nodes[node + 1].parent

IsLeaf(rf, node) ==
    rf.graph_.nodes[node + 1].left_child = -1 /\ rf.graph_.nodes[node + 1].right_child = -1

\* The child of an internal node that its split test selects for the row.
Selected(rf, node, row) ==
    LET t == rf.split_tests_[node]
    IN IF row[t.dim_ + 1] <= t.val_ THEN rf.graph_.nodes[node + 1].left_child
       ELSE rf.graph_.nodes[node + 1].right_child

\* node lies on the path the row takes from root.
RECURSIVE OnPath(_, _, _, _)
OnPath(rf, node, root, row) ==
    \/ node = root
    \/ /\ Parent(rf, node) # -1
       /\ Selected(rf, Parent(rf, node), row) = node
       /\ OnPath(rf, Parent(rf, node), root, row)

RECURSIVE Depth(_, _)
Depth(rf, node) == IF Parent(rf, node) = -1 THEN 0 ELSE 1 + Depth(rf, Parent(rf, node))

\* The out-degree-0 node the row reaches in tree k.
LeafReached(rf, k, row) ==
    CHOOSE node \in NodeIds(rf) :
        IsLeaf(rf, node) /\ OnPath(rf, node, rf.graph_.root_nodes_[k + 1], row)

\* The resolved tree set of a call on rf with the given tree_indices.
Resolved(rf, indices) ==
    IF Len(indices) = 0 THEN 0..(num_trees(rf) - 1)
    ELSE {k \in 0..MaxTrees : \E j \in 1..Len(indices) : indices[j] = k}

RECURSIVE SumOver(_, _, _)
SumOver(rf, f, pairs) ==
    IF pairs = {} THEN 0
    ELSE LET p == CHOOSE q \in pairs : TRUE
         IN Depth(rf, LeafReached(rf, p[2], f.data[p[1] + 1])) + SumOver(rf, f, pairs \ {p})

\* The number of split evaluations over all samples and requested trees.
TotalEvaluations(rf, f, trees) ==
    SumOver(rf, f, {<<i, k>> : i \in 0..(f.shape[1] - 1), k \in trees})

Returned == pc = "done" /\ op \in Ops

\* The row positions (1-based) of the first maximum of a probability row.
FirstMaximum(row) ==
    CHOOSE j \in 1..Len(row) :
        /\ \A c \in 1..Len(row) : row[c][1] * row[j][2] <= row[j][1] * row[c][2]
        /\ \A c \in 1..(j - 1) : row[c][1] * row[j][2] < row[j][1] * row[c][2]

(***************************************************************************)
(* C1: predict writes, for every sample, the distinct label at the index   *)
(* of the first maximum of the sample's probability row; on the 7-node     *)
(* forest of test_base_class the eight samples of test_x get the labels    *)
(* 0, 0, 1, 1, -7, -7, 3, 3.                                               *)
(***************************************************************************)
C1_PredictWritesFirstMaximumLabel ==
    (pc = "done" /\ op = "predict") =>
        /\ Len(labels) = features.shape[1]
        /\ \A i \in 1..Len(labels) :
              labels[i] = problem_spec_.distinct_classes_[FirstMaximum(probs[i])]
        /\ (This = TestForest /\ features = test_x) => labels = test_y

C1_Witness ==
    /\ pc = "done" /\ op = "predict"
    /\ This = TestForest /\ features = test_x /\ labels = test_y

\* A tie between two trees is decided for the lower class index.
C1_TieWitness ==
    /\ pc = "done" /\ op = "predict" /\ Len(labels) > 0
    /\ \E c \in 2..Len(probs[1]) : probs[1][c] = probs[1][FirstMaximum(probs[1])]
                                   /\ c # FirstMaximum(probs[1])

(***************************************************************************)
(* C2: after a successful leaf_ids call with resolved tree set R, every    *)
(* cell ids(i,k) with k in R holds the out-degree-0 node reached from the  *)
(* root of tree k by following the children the split tests select on row  *)
(* i, and every cell with k not in R holds -1.                             *)
(***************************************************************************)
C2_LeafIdsCells ==
    (pc = "done" /\ op = "leaf_ids") =>
        /\ Len(ids) = features.shape[1]
        /\ \A i \in 0..(features.shape[1] - 1) : \A k \in 0..(num_trees(This) - 1) :
              IF k \in Resolved(This, tree_indices)
              THEN /\ ids[i + 1][k + 1] \in NodeIds(This)
                   /\ IsLeaf(This, ids[i + 1][k + 1])
                   /\ OnPath(This, ids[i + 1][k + 1], graph_.root_nodes_[k + 1],
                             features.data[i + 1])
              ELSE ids[i + 1][k + 1] = -1

C2_Witness ==
    /\ pc = "done" /\ op = "leaf_ids" /\ features.shape[1] = 2
    /\ num_trees(This) = 2 /\ Resolved(This, tree_indices) = {1}
    /\ ids[1][1] = -1 /\ ids[1][2] # ids[2][2]
    /\ Depth(This, ids[1][2]) > 0

(***************************************************************************)
(* C3: the average returned by leaf_ids, predict_proba and predict on the  *)
(* same features and tree-index set is the same value: the total number of *)
(* split evaluations over all samples and requested trees, divided by the  *)
(* number of samples.                                                      *)
(***************************************************************************)
C3_SameAverage ==
    Returned =>
        result = [sum |-> TotalEvaluations(This, features, Resolved(This, tree_indices)),
                  n |-> features.shape[1]]

C3_Witness ==
    /\ Returned /\ op = "predict" /\ features.shape[1] = 2
    /\ num_trees(This) = 2 /\ Resolved(This, tree_indices) = {0}
    /\ result.sum = 3 /\ result.n = 2


(***************************************************************************)
(* C4: for a fixed forest, feature matrix and tree-index set, the leaf-id  *)
(* matrix leaf_ids writes and the average it returns do not depend on the  *)
(* worker count, on the interleaving of the workers or on which worker     *)
(* gets which sample: they are those of one worker taking the samples in   *)
(* order.                                                                  *)
(***************************************************************************)
OneWorkerInOrder ==
    leaf_ids_impl(This, features, Filled(features.shape[1], num_trees(This), -1),
                  0, features.shape[1], actual_tree_indices)

C4_IndependentOfWorkers ==
    (pc = "done" /\ op = "leaf_ids") =>
        /\ ids = OneWorkerInOrder.ids
        /\ result = [sum |-> OneWorkerInOrder.split_comparisons, n |-> features.shape[1]]

C4_Witness ==
    /\ pc = "done" /\ op = "leaf_ids" /\ n_threads = 2 /\ features.shape[1] = 2
    /\ split_comparisons[1] > 0 /\ split_comparisons[2] > split_comparisons[1]

(***************************************************************************)
(* C5: merging B (k nodes, t trees) into A (n nodes, m trees) with an      *)
(* equal problem specification gives n+k nodes and m+t trees; every        *)
(* split-test and response entry of B at id x is in A at id x+n; and for   *)
(* every row and tree j of B the traversal of tree m+j of A reaches B's    *)
(* leaf id + n with the same comparison count and the same response.       *)
(***************************************************************************)
ProbeRows == {test_x.data[j] : j \in 1..Len(test_x.data)}

C5_MergeAppendsShifted ==
    pc = "merged" =>
        LET n == num_nodes(before)
            m == num_trees(before)
        IN /\ num_nodes(This) = n + num_nodes(other)
           /\ num_trees(This) = m + num_trees(other)
           /\ \A x \in DOMAIN other.split_tests_ :
                 /\ x + n \in DOMAIN split_tests_
                 /\ split_tests_[x + n] = other.split_tests_[x]
           /\ \A x \in DOMAIN other.node_responses_ :
                 /\ x + n \in DOMAIN node_responses_
                 /\ node_responses_[x + n] = other.node_responses_[x]
           /\ \A row \in ProbeRows : \A j \in 0..(num_trees(other) - 1) :
                 LET b == descend(other, row, getRoot(other.graph_, j), 0, <<>>)
                     a == descend(This, row, getRoot(graph_, m + j), 0, <<>>)
                 IN /\ a.node = b.node + n
                    /\ a.split_comparisons = b.split_comparisons
                    /\ node_responses_[a.node] = other.node_responses_[b.node]

C5_Witness ==
    /\ pc = "merged" /\ num_nodes(before) > 1
    /\ DOMAIN other.split_tests_ # {}
    /\ num_nodes(This) = num_nodes(before) + num_nodes(other)

(***************************************************************************)
(* C6: a successful merge leaves the first forest's part unchanged: its    *)
(* trees keep the indices [0, m), every original node keeps its children,  *)
(* its split test and its response, and leaf ids, comparison counts and    *)
(* responses of the original trees are as before the merge.                *)
(***************************************************************************)
C6_MergeKeepsOriginal ==
    pc = "merged" =>
        LET n == num_nodes(before)
            m == num_trees(before)
        IN /\ SubSeq(graph_.nodes, 1, n) = before.graph_.nodes
           /\ SubSeq(graph_.root_nodes_, 1, m) = before.graph_.root_nodes_
           /\ \A x \in 0..(n - 1) :
                 /\ x \in DOMAIN split_tests_ <=> x \in DOMAIN before.split_tests_
                 /\ x \in DOMAIN before.split_tests_ =>
                       split_tests_[x] = before.split_tests_[x]
                 /\ x \in DOMAIN node_responses_ <=> x \in DOMAIN before.node_responses_
                 /\ x \in DOMAIN before.node_responses_ =>
                       node_responses_[x] = before.node_responses_[x]
           /\ problem_spec_ = before.problem_spec_
           /\ \A row \in ProbeRows : \A k \in 0..(m - 1) :
                 LET a == descend(This, row, getRoot(graph_, k), 0, <<>>)
                     b == descend(before, row, getRoot(before.graph_, k), 0, <<>>)
                 IN a = b /\ node_responses_[a.node] = before.node_responses_[b.node]

C6_Witness ==
    /\ pc = "merged"
    /\ DOMAIN before.split_tests_ # {} /\ DOMAIN other.split_tests_ # {}
    /\ (DOMAIN before.node_responses_) \cap (DOMAIN other.node_responses_) # {}
    /\ SubSeq(graph_.nodes, 1, num_nodes(before)) = before.graph_.nodes

(***************************************************************************)
(* C7: predict, predict_proba and leaf_ids check every shape precondition  *)
(* (sample counts, feature count, column count, explicit tree indices)     *)
(* before any computation: when one fails the call fails and no cell of    *)
(* the caller's output array has been written.                             *)
(***************************************************************************)
ShapeViolated ==
    \/ features.shape[1] # out_shape[1]
    \/ features.shape[2] # problem_spec_.num_features_
    \/ op = "leaf_ids" /\ out_shape[2] # num_trees(This)
    \/ op = "predict_proba" /\ out_shape[2] # problem_spec_.num_classes_
    \/ \E j \in 1..Len(tree_indices) : tree_indices[j] >= num_trees(This)

CallerOutput == CASE op = "leaf_ids" -> ids [] op = "predict_proba" -> probs [] op = "predict" -> labels

Untouched ==
    /\ written = {}
    /\ CallerOutput = CallerArray(op, op, out_shape)
    /\ walks = EmptyMap /\ tree_results = <<>>
    /\ split_comparisons = <<>> /\ result = NoResult

C7_FailsBeforeAnyWrite ==
    (op \in Ops /\ ShapeViolated) => (pc = "failed" /\ Untouched)

C7_Witness ==
    /\ pc = "failed" /\ op = "predict"
    /\ features.shape[1] = 1 /\ out_shape = <<1>>
    /\ features.shape[2] = problem_spec_.num_features_
    /\ tree_indices = <<MaxTrees>>
    /\ labels = <<0>> /\ Untouched

(***************************************************************************)
(* C8: merge with a forest whose problem specification differs in the      *)
(* feature count, the class count or the label list fails on the           *)
(* precondition and leaves graph, split tests, responses and problem       *)
(* specification as they were.                                             *)
(***************************************************************************)
C8_MergeRejectsOtherSpec ==
    (op = "merge" /\ before.problem_spec_ # other.problem_spec_) =>
        /\ pc = "merge_failed"
        /\ error = "RandomForest::merge(): You cannot merge with different problem specs."
        /\ This = before

C8_Witness ==
    /\ pc = "merge_failed" /\ This = before /\ num_trees(This) = 2
    /\ before.problem_spec_.num_features_ = other.problem_spec_.num_features_
    /\ before.problem_spec_.num_classes_ = other.problem_spec_.num_classes_
    /\ before.problem_spec_.distinct_classes_ # other.problem_spec_.distinct_classes_

(***************************************************************************)
(* C9: for a tree whose root has no children the traversal of any row      *)
(* returns the root's id, adds 0 to the comparison count, looks up no      *)
(* split test, and the response gathered for that tree is the root's.      *)
(***************************************************************************)
\* The position of tree k in the list gathered for one instance.
PositionOf(k, trees) == Cardinality({j \in trees : j <= k})

C9_ChildlessRoot ==
    \A c \in DOMAIN walks :
        LET root == graph_.root_nodes_[c[2] + 1]
        IN IsLeaf(This, root) =>
              /\ walks[c] = [node |-> root, split_comparisons |-> 0, tests |-> <<>>]
              /\ ids[c[1] + 1][c[2] + 1] = root
              /\ (pc = "done" /\ op # "leaf_ids") =>
                    tree_results[c[1] + 1][PositionOf(c[2], Resolved(This, tree_indices))]
                        = node_responses_[root]

C9_Witness ==
    /\ pc = "done" /\ op = "predict_proba" /\ num_trees(This) = 2
    /\ IsLeaf(This, graph_.root_nodes_[2]) /\ ~IsLeaf(This, graph_.root_nodes_[1])
    /\ <<0, 1>> \in DOMAIN walks
    /\ walks[<<0, 1>>].tests = <<>> /\ walks[<<0, 0>>].tests # <<>>
    /\ tree_results[1][2] = node_responses_[graph_.root_nodes_[2]]

(***************************************************************************)
(* C10: the shape of probs that predict_proba accepts.  The note at the    *)
(* declaration asks for (features.shape()[0], num_trees); the code asks    *)
(* for (features.shape()[0], num_classes).                                 *)
(***************************************************************************)
ShapeMessages ==
    {"RandomForest::predict_proba(): Shape mismatch between features and probabilities.",
     "RandomForest::predict_proba(): Number of features in prediction differs from training.",
     "RandomForest::predict_proba(): Number of labels in probabilities differs from training."}

TreeIndicesInRange == \A j \in 1..Len(tree_indices) : tree_indices[j] < num_trees(This)

PassedAndFilled ==
    /\ error \notin ShapeMessages
    /\ TreeIndicesInRange =>
          /\ pc \in {"loop", "done"}
          /\ pc = "done" => written = Cells(features.shape[1], out_shape[2])

AscendingList(trees) ==
    CHOOSE s \in [1..Cardinality(trees) -> trees] :
        \A a, b \in 1..Cardinality(trees) : a < b => s[a] < s[b]

\* Sample by sample, and within a sample tree by tree in ascending order.
LookupOrder(n, trees) ==
    LET m == Cardinality(trees)
    IN [p \in 1..(n * m) |-> <<(p - 1) \div m, AscendingList(trees)[((p - 1) % m) + 1]>>]

Gathered == op \in {"predict_proba", "predict"} /\ pc \in {"done", "lookup_failed"}

\* C11: once predict_proba has gathered, the accumulator was invoked once per
\* sample, and the list it got for sample i is node_responses_ at ids(i, k) for
\* the resolved trees k in ascending order, once each, where ids(i, k) is the
\* leaf the sample reaches in tree k; the cells looked up in the response map
\* are exactly those, none of them holds the sentinel -1, and nothing is
\* looked up before the ids are complete.
C11_AccumulatorGetsRequestedResponses ==
    /\ pc = "loop" => looked = <<>> /\ tree_results = <<>>
    /\ Gathered =>
          LET trees == Resolved(This, tree_indices)
              asc == AscendingList(trees)
              n == features.shape[1]
          IN /\ pc = "done"
             /\ Len(tree_results) = n
             /\ \A i \in 0..(n - 1) :
                   /\ \A k \in trees :
                         ids[i + 1][k + 1] = LeafReached(This, k, features.data[i + 1])
                   /\ tree_results[i + 1] =
                         [j \in 1..Cardinality(trees) |->
                             node_responses_[ids[i + 1][asc[j] + 1]]]
             /\ looked = LookupOrder(n, trees)
             /\ \A p \in 1..Len(looked) :
                   /\ looked[p][2] \in trees
                   /\ ids[looked[p][1] + 1][looked[p][2] + 1] # -1

\* Two trees requested out of order whose answers for the first sample differ.
C11_Witness ==
    /\ pc = "done" /\ op = "predict_proba" /\ tree_indices = <<1, 0>>
    /\ features.shape[1] = 2
    /\ Len(tree_results) = 2 /\ Len(tree_results[1]) = 2
    /\ tree_results[1][1] # tree_results[1][2]
    /\ Len(looked) = 4

\* One tree of two requested: the other column keeps the sentinel, unread.
C11_SentinelColumnUnread ==
    IF pc = "done" /\ op = "predict_proba" /\ Len(tree_indices) = 1
          /\ num_trees(This) = 2 /\ features.shape[1] > 0
    THEN /\ \E k \in 0..1 :
               ids[1][k + 1] = -1 /\ \A p \in 1..Len(looked) : looked[p][2] # k
         /\ Len(looked) = features.shape[1] /\ Len(looked) > 0
    ELSE FALSE

(***************************************************************************)
(* leaf_ids: the parallel loop                                             *)
(***************************************************************************)
\* A lambda run for item i wrote no row of ids but row i.
OwnRow == \A w \in accesses.rows : w[2] = w[1]

\* A worker added to no counter but its own, which exists.
OwnSlot ==
    \A u \in accesses.slots :
        /\ u[2] = u[1]
        /\ u[1] \in 0..(n_threads - 1)
        /\ u[2] + 1 \in DOMAIN split_comparisons

\* The items run so far are those no longer pending.
RunAndPending ==
    /\ accesses.items = (0..(features.shape[1] - 1)) \ pending
    /\ {w[1] : w \in accesses.rows} \subseteq accesses.items

\* No row of ids was written for two different items (each item being run
\* once, by one worker), and no counter was added to by two different workers.
NoSharedWrite ==
    /\ \A w, x \in accesses.rows : w[1] # x[1] => w[2] # x[2]
    /\ \A u, v \in accesses.slots : u[1] # v[1] => u[2] # v[2]

\* C12: while parallel_foreach runs, every step leaves the forest (graph and
\* attribute maps) unchanged; ids and the counters change only in a lambda
\* run, which takes one item that was still pending and is not pending
\* afterwards, so that no item is run twice; a run for item i writes only row
\* i of ids and adds only to the counter of its own worker (index below the
\* resolved worker count); no two items have written the same row and no two
\* workers the same counter.
C12_WorkersWriteDisjointMemory ==
    [][pc = "loop" =>
          /\ UNCHANGED forest_vars
          /\ (ids' # ids \/ split_comparisons' # split_comparisons) => accesses' # accesses
          /\ accesses' # accesses =>
                \E i \in pending :
                    /\ pending' = pending \ {i}
                    /\ accesses'.items = accesses.items \cup {i}
                    /\ accesses.rows \subseteq accesses'.rows
                    /\ \A w \in accesses'.rows \ accesses.rows : w[1] = i
          /\ OwnRow' /\ OwnSlot' /\ RunAndPending' /\ NoSharedWrite']_vars

\* Two workers have each run one item, written its row and counted for it.
C12_Witness ==
    /\ pc \in {"loop", "done"}
    /\ {<<0, 0>>, <<1, 1>>} \subseteq accesses.rows
    /\ \E u, v \in accesses.slots :
          u[1] # v[1] /\ split_comparisons[u[2] + 1] > 0 /\ split_comparisons[v[2] + 1] > 0

(***************************************************************************)
(* leaf_ids: failure before the loop, or completion                        *)
(***************************************************************************)
RECURSIVE Total(_)
Total(counts) == IF counts = <<>> THEN 0 ELSE Head(counts) + Total(Tail(counts))

RECURSIVE WalkTotal(_)
WalkTotal(cells) ==
    IF cells = {} THEN 0
    ELSE LET c == CHOOSE d \in cells : TRUE
         IN walks[c].split_comparisons + WalkTotal(cells \ {c})

\* The lambda run for item i cannot fail: the four preconditions of
\* leaf_ids_impl hold for the range i..i+1, and in every requested tree the
\* sample's path from the root ends at a leaf.
RunCannotFail(i) ==
    /\ features.shape[1] = Len(ids)
    /\ features.shape[2] = problem_spec_.num_features_
    /\ i >= 0 /\ i + 1 <= features.shape[1]
    /\ Len(ids[i + 1]) = num_trees(This)
    /\ \A k \in actual_tree_indices :
          \E node \in NodeIds(This) :
              /\ IsLeaf(This, node)
              /\ OnPath(This, node, graph_.root_nodes_[k + 1], features.data[i + 1])

\* C13: a call that has failed did so on a precondition before any worker
\* ran (no descent made, no counter vector, no item handed out).  A call
\* inside the loop is never stuck and never fails: nothing is summed yet, the
\* items run so far are exactly those no longer pending, there is a worker to
\* run a pending item, no run of a pending item can fail,
\* and with none pending leaf_ids can return.  A call that has returned did so
\* after every item was run; every traversal ended at a leaf after at most
\* num_nodes comparisons, and the sum returned holds every worker's counter
\* and every traversal's count.
C13_FailsEarlyOrCompletes ==
    /\ (pc = "failed" /\ op \in Ops) =>
          /\ error # "" /\ error # "RandomForest::leaf_ids_impl()"
          /\ accesses = NoAccess /\ walks = EmptyMap /\ pending = {}
          /\ n_threads = 0 /\ split_comparisons = <<>>
    /\ pc = "loop" =>
          /\ result = NoResult /\ error = ""
          /\ accesses.items = (0..(features.shape[1] - 1)) \ pending
          /\ n_threads >= 1
          /\ \A i \in pending : RunCannotFail(i)
          /\ (pending = {} /\ op = "leaf_ids") => ENABLED Finish
    /\ (pc = "done" /\ op \in Ops) =>
          /\ pending = {}
          /\ accesses.items = 0..(features.shape[1] - 1)
          /\ DOMAIN walks = {<<i, k>> : i \in 0..(features.shape[1] - 1),
                                        k \in Resolved(This, tree_indices)}
          /\ \A c \in DOMAIN walks :
                IsLeaf(This, walks[c].node) /\ walks[c].split_comparisons <= num_nodes(This)
          /\ result.sum = Total(split_comparisons)
          /\ result.sum = WalkTotal(DOMAIN walks)

\* The loop is never stuck, stated on the actions themselves: while an item
\* is pending some worker can take a step.
C13_LoopNeverStuck == (pc = "loop" /\ pending # {}) => ENABLED LoopSteps

\* leaf_ids has returned after two workers ran the two samples.
C13_Witness ==
    /\ pc = "done" /\ op = "leaf_ids" /\ features.shape[1] = 2
    /\ \E u, v \in accesses.slots : u[1] # v[1]
    /\ result.sum > 0 /\ result.n = 2

(***************************************************************************)
(* leaf_ids: the worker count                                              *)
(***************************************************************************)
\* C14: in a call that has passed the preconditions, the worker count is the
\* given n_threads when that is positive; when it is -1 the hardware
\* concurrency was asked and the count is that value, or 1 when that value is
\* below 1; the count is at least 1, the counter vector has exactly that many
\* slots, and every worker that ran had an index below it.
C14_WorkerCount ==
    (pc \in {"loop", "done", "lookup_failed"} /\ op \in Ops) =>
        /\ given_n_threads > 0 => n_threads = given_n_threads /\ hardware = -1
        /\ given_n_threads = -1 =>
              /\ hardware \in HardwareValues
              /\ n_threads = IF hardware < 1 THEN 1 ELSE hardware
        /\ n_threads >= 1
        /\ Len(split_comparisons) = n_threads
        /\ \A u \in accesses.slots : u[1] < n_threads

\* n_threads = -1 on a platform that reports 0: one worker runs the items.
C14_Witness ==
    /\ pc = "done" /\ op = "leaf_ids"
    /\ given_n_threads = -1 /\ hardware = 0 /\ n_threads = 1
    /\ Len(split_comparisons) = 1 /\ split_comparisons[1] > 0
    /\ accesses.items = {0, 1}

\* n_threads = -1 on a platform with two hardware threads.
C14_HardwareWitness ==
    /\ pc = "loop" /\ given_n_threads = -1 /\ hardware = 2 /\ n_threads = 2
    /\ Len(split_comparisons) = 2 /\ accesses.items # {}

====
